---- MODULE Spec2Model ----
(***************************************************************************)
(* cvecheck-2-html.py: cve-summary.json -> rows -> HTML report.            *)
(*                                                                         *)
(* Python values are records [t, n, s]: t is the Python type, n the        *)
(* numeric payload, s the text payload (a sequence of one-character        *)
(* strings).  A float is kept as an integer number of 1/Scale units.       *)
(***************************************************************************)
EXTENDS Integers, Sequences, FiniteSets, TLC

\* ------------------------------------------------------------------ bounds
\* longest score text tried by the extraction specifications
MaxLen == 3
\* most tokens in a generated CVSS vector string
MaxToks == 4
\* most vector keys set at once in one issue
MaxSet == 2
\* most packages plus issues in a multi-record input
MaxSize == 5
\* most rows handed to build_html, and the largest --limit tried
MaxRows == 3
MaxLimit == 2

\* one float unit is 1/Scale: every decimal text of at most MaxLen characters is exact
Scale == 10 ^ MaxLen

\* ------------------------------------------------------------ Python values
None == [t |-> "None", n |-> 0, s |-> <<>>]
\* a key that the dict does not hold (dict.get then answers None)
Missing == [t |-> "missing", n |-> 0, s |-> <<>>]
Str(cs) == [t |-> "str", n |-> 0, s |-> cs]
IntV(k) == [t |-> "int", n |-> k, s |-> <<>>]
\* a float of value u / Scale
Float(u) == [t |-> "float", n |-> u, s |-> <<>>]
Bool(b) == [t |-> "bool", n |-> IF b THEN 1 ELSE 0, s |-> <<>>]
\* a list / an object of k elements (the elements themselves are never read)
List(k) == [t |-> "list", n |-> k, s |-> <<>>]
Dict(k) == [t |-> "dict", n |-> k, s |-> <<>>]

\* Python truthiness, as used by `x or y`
Truthy(v) ==
  CASE v.t = "None" -> FALSE
    [] v.t = "str" -> v.s # <<>>
    [] OTHER -> v.n # 0

\* x or y
Or(x, y) == IF Truthy(x) THEN x ELSE y

\* dict.get(k): None for a key the dict does not hold
Get(d, k) == IF d[k] = Missing THEN None ELSE d[k]

\* ------------------------------------------------------------------ text
LowerChars == <<"a","b","c","d","e","f","g","h","i","j","k","l","m",
                "n","o","p","q","r","s","t","u","v","w","x","y","z">>
UpperChars == <<"A","B","C","D","E","F","G","H","I","J","K","L","M",
                "N","O","P","Q","R","S","T","U","V","W","X","Y","Z">>
DigitChars == <<"0","1","2","3","4","5","6","7","8","9">>

IndexIn(c, tbl) == IF \E i \in DOMAIN tbl : tbl[i] = c
                   THEN CHOOSE i \in DOMAIN tbl : tbl[i] = c
                   ELSE 0

UpperChar(c) == IF IndexIn(c, LowerChars) # 0 THEN UpperChars[IndexIn(c, LowerChars)] ELSE c
LowerChar(c) == IF IndexIn(c, UpperChars) # 0 THEN LowerChars[IndexIn(c, UpperChars)] ELSE c

\* str.upper(), str.lower(), str.replace(a, b) for single characters
Upper(cs) == [i \in DOMAIN cs |-> UpperChar(cs[i])]
Lower(cs) == [i \in DOMAIN cs |-> LowerChar(cs[i])]
Replace(cs, a, b) == [i \in DOMAIN cs |-> IF cs[i] = a THEN b ELSE cs[i]]

IsSpace(c) == c = " "
IsDigit(c) == IndexIn(c, DigitChars) # 0
DigitVal(c) == IndexIn(c, DigitChars) - 1

\* str.strip()
Strip(cs) ==
  LET keep == {i \in DOMAIN cs : ~IsSpace(cs[i])}
  IN IF keep = {} THEN <<>>
     ELSE LET lo == CHOOSE i \in keep : \A k \in keep : i <= k
              hi == CHOOSE i \in keep : \A k \in keep : k <= i
          IN SubSeq(cs, lo, hi)

\* sub in cs
Contains(cs, sub) ==
  \E i \in 1..(Len(cs) - Len(sub) + 1) : SubSeq(cs, i, i + Len(sub) - 1) = sub

\* cs.find(sub), 0-based, -1 when absent
Find(cs, sub) ==
  IF Contains(cs, sub)
  THEN (CHOOSE i \in 1..(Len(cs) - Len(sub) + 1) :
          /\ SubSeq(cs, i, i + Len(sub) - 1) = sub
          /\ \A k \in 1..(i - 1) : SubSeq(cs, k, k + Len(sub) - 1) # sub) - 1
  ELSE -1

StartsWith(cs, pre) == Len(cs) >= Len(pre) /\ SubSeq(cs, 1, Len(pre)) = pre

\* cs.split(sep) for a one-character separator
RECURSIVE Split(_, _)
Split(cs, sep) ==
  IF \E i \in DOMAIN cs : cs[i] = sep
  THEN LET i == CHOOSE i \in DOMAIN cs : cs[i] = sep /\ \A k \in 1..(i - 1) : cs[k] # sep
       IN <<SubSeq(cs, 1, i - 1)>> \o Split(SubSeq(cs, i + 1, Len(cs)), sep)
  ELSE <<cs>>

\* the value of a run of decimal digits
RECURSIVE DigitsVal(_)
DigitsVal(cs) ==
  IF cs = <<>> THEN 0
  ELSE 10 * DigitsVal(SubSeq(cs, 1, Len(cs) - 1)) + DigitVal(cs[Len(cs)])

\* the decimal digits of k >= 0
RECURSIVE NatDigits(_)
NatDigits(k) ==
  IF k < 10 THEN <<DigitChars[k + 1]>>
  ELSE NatDigits(k \div 10) \o <<DigitChars[(k % 10) + 1]>>

IntDigits(k) == IF k < 0 THEN <<"-">> \o NatDigits(-k) ELSE NatDigits(k)

Abs(k) == IF k < 0 THEN -k ELSE k

\* repr of a float that is a whole number of tenths
FloatRepr(u) ==
  (IF u < 0 THEN <<"-">> ELSE <<>>)
    \o NatDigits(Abs(u) \div Scale) \o <<".">>
    \o <<DigitChars[(((Abs(u) * 10) \div Scale) % 10) + 1]>>

\* str(v)
PyStr(v) ==
  CASE v.t = "None" -> <<"N","o","n","e">>
    [] v.t = "str" -> v.s
    [] v.t = "int" -> IntDigits(v.n)
    [] v.t = "float" -> FloatRepr(v.n)
    [] v.t = "bool" -> (IF v.n = 1 THEN <<"T","r","u","e">> ELSE <<"F","a","l","s","e">>)
    [] v.t = "list" -> (IF v.n = 0 THEN <<"[","]">> ELSE <<"[","x","]">>)
    [] OTHER -> (IF v.n = 0 THEN <<"{","}">> ELSE <<"{","x","}">>)

\* float(text): surrounding blanks, an optional sign, digits with at most one
\* point and at least one digit.  [ok, val]: ok is FALSE for a ValueError.
FloatOfText(cs) ==
  LET t == Strip(cs)
      signed == t # <<>> /\ t[1] \in {"-", "+"}
      body == IF signed THEN SubSeq(t, 2, Len(t)) ELSE t
      dots == {i \in DOMAIN body : body[i] = "."}
      wellformed == /\ \A i \in DOMAIN body : IsDigit(body[i]) \/ body[i] = "."
                    /\ Cardinality(dots) <= 1
                    /\ \E i \in DOMAIN body : IsDigit(body[i])
      dot == IF dots = {} THEN Len(body) + 1 ELSE CHOOSE i \in dots : TRUE
      whole == SubSeq(body, 1, dot - 1)
      frac == SubSeq(body, dot + 1, Len(body))
      mag == DigitsVal(whole) * Scale + (DigitsVal(frac) * Scale) \div (10 ^ Len(frac))
  IN IF wellformed
     THEN [ok |-> TRUE, val |-> IF signed /\ t[1] = "-" THEN -mag ELSE mag]
     ELSE [ok |-> FALSE, val |-> 0]

\* float(v): [ok, val]; ok is FALSE when float() raises (TypeError, ValueError)
PyFloat(v) ==
  CASE v.t = "str" -> FloatOfText(v.s)
    [] v.t = "int" -> [ok |-> TRUE, val |-> v.n * Scale]
    [] v.t = "bool" -> [ok |-> TRUE, val |-> v.n * Scale]
    [] v.t = "float" -> [ok |-> TRUE, val |-> v.n]
    [] OTHER -> [ok |-> FALSE, val |-> 0]

\* ------------------------------------------------------------ parse_score
sZero == <<"0">>
sZeroPointZero == <<"0",".","0">>

parse_score(v) ==
  IF v = None \/ v = Str(<<>>) \/ Strip(PyStr(v)) \in {sZero, sZeroPointZero}
  THEN None
  ELSE IF PyFloat(v).ok THEN Float(PyFloat(v).val) ELSE None

\* ------------------------------------------------------------ get_vectors
keys_v3 == <<"cvss_v3_vector", "cvss3_vector", "cvssv3_vector",
             "vectorv3", "vector_v3", "vector3", "cvss_v3">>
keys_v2 == <<"cvss_v2_vector", "cvss2_vector", "cvssv2_vector",
             "vectorv2", "vector_v2", "vector2", "cvss_v2">>

\* isinstance(v, str) and v
NonEmptyStr(v) == v.t = "str" /\ v.s # <<>>

\* line 47: "PR:" in raw or "S:" in raw or "C:" in raw and "I:" in raw and "A:" in raw and ":" in raw
LooksV3(cs) ==
  \/ Contains(cs, <<"P","R",":">>)
  \/ Contains(cs, <<"S",":">>)
  \/ /\ Contains(cs, <<"C",":">>)
     /\ Contains(cs, <<"I",":">>)
     /\ Contains(cs, <<"A",":">>)
     /\ Contains(cs, <<":">>)

\* raw = issue.get("vector") or issue.get("cvss_vector")
LegacyRaw(issue) == Or(Get(issue, "vector"), Get(issue, "cvss_vector"))

\* ScanKeys without the `if not v` guard and the break: the last alias wins
RECURSIVE ScanKeysNoBreak(_, _, _, _)
ScanKeysNoBreak(issue, keys, i, v) ==
  IF i > Len(keys) THEN v
  ELSE IF NonEmptyStr(Get(issue, keys[i]))
       THEN ScanKeysNoBreak(issue, keys, i + 1, Get(issue, keys[i]))
       ELSE ScanKeysNoBreak(issue, keys, i + 1, v)

\* `for k in keys: if not v: vv = issue.get(k); if isinstance(vv, str) and vv: v = vv; break`
RECURSIVE ScanKeys(_, _, _, _)
ScanKeys(issue, keys, i, v) ==
  IF i > Len(keys) THEN v
  ELSE IF ~Truthy(v) /\ NonEmptyStr(Get(issue, keys[i]))
       THEN Get(issue, keys[i])
       ELSE ScanKeys(issue, keys, i + 1, v)

\* (v3, v2)
get_vectors(issue) ==
  LET raw == LegacyRaw(issue)
      v3 == IF NonEmptyStr(raw) /\ LooksV3(raw.s) THEN raw ELSE None
      v2 == IF NonEmptyStr(raw) /\ ~LooksV3(raw.s) THEN raw ELSE None
  IN <<ScanKeys(issue, keys_v3, 1, v3), ScanKeys(issue, keys_v2, 1, v2)>>

\* ---------------------------------------- attack_vector_from_vectorstring
sAV == <<"A","V",":">>
sNetwork == <<"N","e","t","w","o","r","k">>
sAdjacent == <<"A","d","j","a","c","e","n","t">>
sLocal == <<"L","o","c","a","l">>
sPhysical == <<"P","h","y","s","i","c","a","l">>

\* {"N": "Network", ...}.get(code, None)
CodeName(code) ==
  CASE code = "N" -> Str(sNetwork)
    [] code = "A" -> Str(sAdjacent)
    [] code = "L" -> Str(sLocal)
    [] code = "P" -> Str(sPhysical)
    [] OTHER -> None

\* lines 83-90: the first part of s.split("/") that, stripped, starts with "AV:" and has a 4th character
PartCode(parts) ==
  LET hits == {i \in DOMAIN parts :
                 StartsWith(Strip(parts[i]), sAV) /\ Len(Strip(parts[i])) >= 4}
  IN IF hits = {} THEN None
     ELSE CodeName(Strip(parts[CHOOSE i \in hits : \A k \in hits : i <= k])[4])

\* attack_vector_from_vectorstring without .upper()
attack_vector_no_upper(v) ==
  IF v.t # "str" THEN None
  ELSE LET s == Replace(v.s, ";", "/")
           idx == Find(s, sAV)
       IN IF idx = -1 THEN PartCode(Split(s, "/"))
          ELSE IF Len(s) >= idx + 4 THEN CodeName(s[idx + 4]) ELSE None

attack_vector_from_vectorstring(v) ==
  IF v.t # "str" THEN None
  ELSE LET s == Upper(Replace(v.s, ";", "/"))
           idx == Find(s, sAV)
       IN IF idx = -1 THEN PartCode(Split(s, "/"))
          ELSE IF Len(s) >= idx + 4 THEN CodeName(s[idx + 4]) ELSE None

\* --------------------------------------------------------------- load_rows
IssueKeys == {"id", "status", "scorev3", "scorev2", "summary", "link",
              "vector", "cvss_vector"}
               \cup {keys_v3[i] : i \in DOMAIN keys_v3}
               \cup {keys_v2[i] : i \in DOMAIN keys_v2}

\* (issue.get("status") or "").strip() raises AttributeError on a truthy non-string
StatusRaises(issue) == Or(Get(issue, "status"), Str(<<>>)).t # "str"

\* the dict appended at lines 113-125
MakeRow(name, version, issue) ==
  LET vecs == get_vectors(issue)
      av == attack_vector_from_vectorstring(Or(vecs[1], vecs[2]))
  IN [package |-> name,
      version |-> version,
      cve_id |-> Get(issue, "id"),
      status |-> Str(Strip(Or(Get(issue, "status"), Str(<<>>)).s)),
      scorev3 |-> parse_score(Get(issue, "scorev3")),
      scorev2 |-> parse_score(Get(issue, "scorev2")),
      attack_vector |-> Or(av, Str(<<>>)),
      vector_v3 |-> Or(vecs[1], Str(<<>>)),
      vector_v2 |-> Or(vecs[2], Str(<<>>)),
      summary |-> Or(Get(issue, "summary"), Str(<<>>)),
      link |-> Or(Get(issue, "link"), Str(<<>>))]

VARIABLES
  pc,        \* where the run is
  j,         \* load_rows: the parsed input
  pi, ii,    \* load_rows: packages / issues of the current package already taken
  v3_vec, v2_vec,  \* load_rows: the vectors of the issue taken last
  rows,      \* load_rows: the list being built
  all_rows, min_score, limit,   \* build_html: its arguments
  unpatched, patched, others,   \* build_html: the three partitions
  doc        \* build_html: the counts of the header and the tables of the body

loadVars == <<j, pi, ii, v3_vec, v2_vec, rows>>
htmlVars == <<all_rows, min_score, limit, unpatched, patched, others, doc>>
vars == <<pc, loadVars, htmlVars>>

\* for pkg in j.get("package", []): the next package
LoadPkg ==
  /\ pc = "for_pkg"
  /\ pi < Len(j.package)
  /\ pi' = pi + 1
  /\ ii' = 0
  /\ pc' = "for_issue"
  /\ UNCHANGED <<j, v3_vec, v2_vec, rows, htmlVars>>

\* LoadIssue that skips an issue with neither score instead of appending its row
LoadIssueSkipsUnscored ==
  /\ pc = "for_issue"
  /\ ii < Len(j.package[pi].issue)
  /\ LET pkg == j.package[pi]
         issue == pkg.issue[ii + 1]
         vecs == get_vectors(issue)
         row == MakeRow(pkg.name, pkg.version, issue)
     IN /\ v3_vec' = vecs[1]
        /\ v2_vec' = vecs[2]
        /\ ii' = ii + 1
        /\ IF StatusRaises(issue)
           THEN pc' = "raised" /\ rows' = rows
           ELSE /\ pc' = pc
                /\ rows' = IF row.scorev3 = None /\ row.scorev2 = None
                           THEN rows ELSE Append(rows, row)
  /\ UNCHANGED <<j, pi, htmlVars>>

\* for issue in pkg.get("issue", []): the next issue, lines 111-125
LoadIssue ==
  /\ pc = "for_issue"
  /\ ii < Len(j.package[pi].issue)
  /\ LET pkg == j.package[pi]
         issue == pkg.issue[ii + 1]
         vecs == get_vectors(issue)
     IN /\ v3_vec' = vecs[1]
        /\ v2_vec' = vecs[2]
        /\ ii' = ii + 1
        /\ IF StatusRaises(issue)
           THEN pc' = "raised" /\ rows' = rows
           ELSE /\ pc' = pc
                /\ rows' = Append(rows, MakeRow(pkg.name, pkg.version, issue))
  /\ UNCHANGED <<j, pi, htmlVars>>

\* the issues of the package are exhausted
LoadIssuesDone ==
  /\ pc = "for_issue"
  /\ ii = Len(j.package[pi].issue)
  /\ pc' = "for_pkg"
  /\ UNCHANGED <<loadVars, htmlVars>>

\* return rows
LoadReturn ==
  /\ pc = "for_pkg"
  /\ pi = Len(j.package)
  /\ pc' = "returned"
  /\ UNCHANGED <<loadVars, htmlVars>>

NextLoad == LoadPkg \/ LoadIssue \/ LoadIssuesDone \/ LoadReturn

\* ---------------------------------------------------------------- sort_key
\* sort_key that reads scorev2 before scorev3
sort_key_v2_first(row) ==
  IF row.scorev2 # None THEN row.scorev2.n
  ELSE IF row.scorev3 # None THEN row.scorev3.n ELSE -Scale

\* scorev3, else scorev2, else -1.0 (in 1/Scale units)
sort_key(row) ==
  IF row.scorev3 # None THEN row.scorev3.n
  ELSE IF row.scorev2 # None THEN row.scorev2.n ELSE -Scale

\* list.sort(key=sort_key, reverse=True): descending, equal keys keep their order
RECURSIVE SortDesc(_)
SortDesc(rs) ==
  IF rs = <<>> THEN <<>>
  ELSE LET front == SortDesc(SubSeq(rs, 1, Len(rs) - 1))
           x == rs[Len(rs)]
           before == {i \in DOMAIN front : sort_key(front[i]) >= sort_key(x)}
           n == Cardinality(before)
       IN SubSeq(front, 1, n) \o <<x>> \o SubSeq(front, n + 1, Len(front))

\* --------------------------------------------------------------- table_html
Min(a, b) == IF a < b THEN a ELSE b
Max(a, b) == IF a < b THEN b ELSE a

\* rows[-limit:] in place of rows[:limit]
SliceLast(rs, lim) == SubSeq(rs, Max(1, Len(rs) - lim + 1), Len(rs))

\* rows[:limit]
Slice(rs, lim) ==
  IF lim >= 0 THEN SubSeq(rs, 1, Min(lim, Len(rs)))
  ELSE SubSeq(rs, 1, Max(0, Len(rs) + lim))

sLowUnpatched == <<"u","n","p","a","t","c","h","e","d">>
sLowPatched == <<"p","a","t","c","h","e","d">>

\* one <tr>: the row and the class of its status cell
Tr(r) ==
  [row |-> r,
   status_cls |-> IF Lower(r.status.s) = sLowUnpatched THEN "status-Unpatched"
                  ELSE IF Lower(r.status.s) = sLowPatched THEN "status-Patched"
                  ELSE "status-Other"]

table_html(title, rs, lim) ==
  [title |-> title, body |-> [k \in DOMAIN Slice(rs, lim) |-> Tr(Slice(rs, lim)[k])]]

\* --------------------------------------------------------------- build_html
\* (r.get("status") or "").lower()
StatusLower(r) == Lower(Or(r.status, Str(<<>>)).s)

\* score_ok with > in place of >=
score_ok_strict(r, ms) ==
  LET s == IF r.scorev3 # None THEN r.scorev3 ELSE r.scorev2
  IN s # None /\ s.n > ms.n

\* lines 283-285
score_ok(r, ms) ==
  LET s == IF r.scorev3 # None THEN r.scorev3 ELSE r.scorev2
  IN s # None /\ s.n >= ms.n

EmptyDoc == [total |-> 0, unpatched |-> 0, patched |-> 0, others |-> 0, tables |-> <<>>]

\* lines 277-279
BuildSplit ==
  /\ pc = "split"
  /\ LET IsU(r) == StatusLower(r) = sLowUnpatched
         IsP(r) == StatusLower(r) = sLowPatched
         IsO(r) == StatusLower(r) \notin {sLowUnpatched, sLowPatched}
     IN /\ unpatched' = SelectSeq(all_rows, IsU)
        /\ patched' = SelectSeq(all_rows, IsP)
        /\ others' = SelectSeq(all_rows, IsO)
  /\ pc' = "filter"
  /\ UNCHANGED <<loadVars, all_rows, min_score, limit, doc>>

\* lines 282-286
BuildFilter ==
  /\ pc = "filter"
  /\ LET Ok(r) == score_ok(r, min_score)
     IN unpatched' = IF min_score # None THEN SelectSeq(unpatched, Ok) ELSE unpatched
  /\ pc' = "sort"
  /\ UNCHANGED <<loadVars, all_rows, min_score, limit, patched, others, doc>>

\* lines 289-291
BuildSort ==
  /\ pc = "sort"
  /\ unpatched' = SortDesc(unpatched)
  /\ patched' = SortDesc(patched)
  /\ others' = SortDesc(others)
  /\ pc' = "header"
  /\ UNCHANGED <<loadVars, all_rows, min_score, limit, doc>>

\* lines 293-313
BuildHeader ==
  /\ pc = "header"
  /\ doc' = [doc EXCEPT !.total = Len(all_rows),
                        !.unpatched = Len(unpatched),
                        !.patched = Len(patched),
                        !.others = Len(others)]
  /\ pc' = "body"
  /\ UNCHANGED <<loadVars, all_rows, min_score, limit, unpatched, patched, others>>

\* BuildBody with every table under `if rows`
BuildBodyNonEmptyOnly ==
  /\ pc = "body"
  /\ doc' = [doc EXCEPT !.tables =
               (IF unpatched # <<>>
                THEN <<table_html("Unpatched (ordenadas por severidad)", unpatched, limit)>>
                ELSE <<>>)
               \o (IF patched # <<>> THEN <<table_html("Patched", patched, limit)>> ELSE <<>>)
               \o (IF others # <<>>
                   THEN <<table_html("Otros estados", others, limit)>> ELSE <<>>)]
  /\ pc' = "done"
  /\ UNCHANGED <<loadVars, all_rows, min_score, limit, unpatched, patched, others>>

\* lines 314-325
BuildBody ==
  /\ pc = "body"
  /\ doc' = [doc EXCEPT !.tables =
               <<table_html("Unpatched (ordenadas por severidad)", unpatched, limit),
                 table_html("Patched", patched, limit)>>
               \o (IF others # <<>>
                   THEN <<table_html("Otros estados", others, limit)>> ELSE <<>>)]
  /\ pc' = "done"
  /\ UNCHANGED <<loadVars, all_rows, min_score, limit, unpatched, patched, others>>

NextHtml == BuildSplit \/ BuildFilter \/ BuildSort \/ BuildHeader \/ BuildBody

\* ----------------------------------------------------------------- inputs
sUnpatched == <<"U","n","p","a","t","c","h","e","d">>
sPatched == <<"P","a","t","c","h","e","d">>

\* an issue with only an id and a status
BaseIssue ==
  [id |-> Str(<<"C","V","E","-","1">>),
   status |-> Str(sUnpatched),
   scorev3 |-> Missing,
   scorev2 |-> Missing,
   summary |-> Missing,
   link |-> Missing,
   vector |-> Missing,
   cvss_vector |-> Missing,
   cvss_v3_vector |-> Missing,
   cvss3_vector |-> Missing,
   cvssv3_vector |-> Missing,
   vectorv3 |-> Missing,
   vector_v3 |-> Missing,
   vector3 |-> Missing,
   cvss_v3 |-> Missing,
   cvss_v2_vector |-> Missing,
   cvss2_vector |-> Missing,
   cvssv2_vector |-> Missing,
   vectorv2 |-> Missing,
   vector_v2 |-> Missing,
   vector2 |-> Missing,
   cvss_v2 |-> Missing]

With(issue, k, v) == [issue EXCEPT ![k] = v]

\* all texts over `chars` of at most n characters
RECURSIVE Texts(_, _)
Texts(chars, n) ==
  IF n = 0 THEN {<<>>}
  ELSE LET shorter == Texts(chars, n - 1)
       IN shorter \cup {Append(t, c) : t \in shorter, c \in chars}

\* all concatenations of at most n of the texts `toks`
RECURSIVE Concats(_, _)
Concats(toks, n) ==
  IF n = 0 THEN {<<>>}
  ELSE LET shorter == Concats(toks, n - 1)
       IN shorter \cup {t \o c : t \in shorter, c \in toks}

ScoreChars == {"0", "7", ".", "-", " ", "x"}

\* what a JSON score field can hold
ScoreValues ==
  {Missing, None, Bool(FALSE), Bool(TRUE), IntV(0), IntV(7), IntV(-1),
   Float(0), Float((75 * Scale) \div 10), Float(-(5 * Scale) \div 10),
   List(0), List(1), Dict(0), Dict(1)}
   \cup {Str(t) : t \in Texts(ScoreChars, MaxLen)}

\* pieces of CVSS vector strings
VecToks == {sAV, <<"a","v",":">>, <<"N">>, <<"A">>, <<"L">>, <<"P">>, <<"X">>, <<";">>}

\* "AV:N/PR:N" (v3), "AV:L/AC:L" (v2), "AV:P/C:H/I:H/A:H" (taken for v3 by line 47),
\* "AC:L" (v2, no attack vector)
vecNet3 == <<"A","V",":","N","/","P","R",":","N">>
vecLoc2 == <<"A","V",":","L","/","A","C",":","L">>
vecPhyCIA == <<"A","V",":","P","/","C",":","H","/","I",":","H","/","A",":","H">>
vecNoAV == <<"A","C",":","L">>

\* the v3/v2 alias keys and the two legacy keys
VecKeys == {keys_v3[i] : i \in DOMAIN keys_v3} \cup {keys_v2[i] : i \in DOMAIN keys_v2}
             \cup {"vector", "cvss_vector"}

AliasValues == {Str(<<>>), IntV(5), Str(vecNet3), Str(vecLoc2), Str(vecPhyCIA), Str(vecNoAV)}

\* every issue with two of the vector keys set
PairIssues ==
  {With(With(BaseIssue, k1, x1), k2, x2) :
     k1 \in VecKeys, k2 \in VecKeys, x1 \in AliasValues, x2 \in AliasValues}

\* the first, second and last alias of each version, and the legacy keys
SomeKeys == {keys_v3[1], keys_v3[2], keys_v3[Len(keys_v3)],
             keys_v2[1], keys_v2[2], keys_v2[Len(keys_v2)], "vector", "cvss_vector"}

\* BaseIssue with at most n of SomeKeys set, each to one of AliasValues
RECURSIVE IssuesWithKeys(_)
IssuesWithKeys(n) ==
  IF n = 0 THEN {BaseIssue}
  ELSE LET fewer == IssuesWithKeys(n - 1)
       IN fewer \cup {With(x, k, v) : x \in fewer, k \in SomeKeys, v \in AliasValues}

AliasIssues == IssuesWithKeys(MaxSet)

ScoreIssues ==
  {With(BaseIssue, "scorev3", v) : v \in ScoreValues}
    \cup {With(With(BaseIssue, "scorev3", Missing), "scorev2", v) : v \in ScoreValues}

VectorIssues == {With(BaseIssue, "vector_v3", Str(t)) : t \in Concats(VecToks, MaxToks)}

\* any JSON type in a field that is not a score
OddValues == {Missing, None, Str(<<>>), Str(<<" ","P","a","t","c","h","e","d"," ">>),
              IntV(0), IntV(5), Float(0), Float(Scale), Bool(FALSE), Bool(TRUE),
              List(0), List(1), Dict(0), Dict(1)}

FieldIssues ==
  {With(BaseIssue, k, v) : k \in {"id", "status", "summary", "link"}, v \in OddValues}

sLibfoo == <<"l","i","b","f","o","o">>
sVersion == <<"1",".","2">>

Package(issues) == [name |-> Str(sLibfoo), version |-> Str(sVersion), issue |-> issues]

\* inputs of one package with one issue
Singles(issues) == {[package |-> <<Package(<<x>>)>>] : x \in issues}

\* four records: scored with a legacy vector; malformed scores and no vector;
\* malformed status; no score field, no status, both vectors under alias keys
issueA == [BaseIssue EXCEPT !["id"] = Str(<<"A">>),
                            !["scorev3"] = Str(<<"9",".","8">>),
                            !["vector"] = Str(vecNet3)]
issueB == [BaseIssue EXCEPT !["id"] = Str(<<"B">>),
                            !["status"] = Str(sPatched),
                            !["scorev3"] = Str(<<"x">>),
                            !["scorev2"] = List(1)]
issueC == [BaseIssue EXCEPT !["id"] = Str(<<"C">>),
                            !["status"] = IntV(5),
                            !["scorev2"] = Float((43 * Scale) \div 10)]

issueD == [BaseIssue EXCEPT !["id"] = Str(<<"D">>),
                            !["status"] = Missing,
                            !["vectorv3"] = Str(vecPhyCIA),
                            !["cvss_v2"] = Str(vecLoc2)]

\* all sequences over S of at most n elements
RECURSIVE SeqsUpTo(_, _)
SeqsUpTo(S, n) ==
  IF n = 0 THEN {<<>>}
  ELSE LET shorter == SeqsUpTo(S, n - 1)
       IN shorter \cup {Append(q, x) : q \in shorter, x \in S}

\* all lists of packages, of issues among `issues`, with at most n packages
\* and issues together
RECURSIVE PackageLists(_, _)
PackageLists(issues, n) ==
  IF n = 0 THEN {<<>>}
  ELSE {<<>>} \cup
       UNION {{<<Package(is)>> \o rest : rest \in PackageLists(issues, n - 1 - Len(is))} :
                is \in SeqsUpTo(issues, n - 1)}

\* inputs whose score and vector fields vary; every status is a string or missing
RowInputs == {[package |-> ps] : ps \in PackageLists({issueA, issueB, issueD}, MaxSize)}

\* inputs with a record whose status is not a string
MultiInputs == {[package |-> ps] : ps \in PackageLists({issueA, issueB, issueC}, MaxSize)}

InitWith(inputs) ==
  /\ j \in inputs
  /\ pc = "for_pkg"
  /\ pi = 0
  /\ ii = 0
  /\ v3_vec = None
  /\ v2_vec = None
  /\ rows = <<>>
  /\ all_rows = <<>>
  /\ min_score = None
  /\ limit = 0
  /\ unpatched = <<>>
  /\ patched = <<>>
  /\ others = <<>>
  /\ doc = EmptyDoc

\* load_rows on inputs of several packages and issues
InitRows == InitWith(RowInputs)
SpecRows == InitRows /\ [][NextLoad]_vars

\* load_rows on inputs of several packages and issues, some with a malformed status
InitLoad == InitWith(MultiInputs)
SpecLoad == InitLoad /\ [][NextLoad]_vars

\* load_rows on every kind of single issue
InitIssue ==
  \/ InitWith(Singles(ScoreIssues))
  \/ InitWith(Singles(VectorIssues))
  \/ InitWith(Singles(PairIssues))
  \/ InitWith(Singles(AliasIssues))
  \/ InitWith(Singles(FieldIssues))
SpecIssue == InitIssue /\ [][NextLoad]_vars

\* the issues behind the rows given to build_html: equal severities under
\* different score fields, statuses in different case, rows with no score
HtmlIssue(id, status, s3, s2) ==
  [BaseIssue EXCEPT !["id"] = Str(id), !["status"] = status,
                    !["scorev3"] = s3, !["scorev2"] = s2]

HtmlIssues ==
  {HtmlIssue(<<"U","1">>, Str(sUnpatched), Str(<<"9",".","8">>), Missing),
   HtmlIssue(<<"U","2">>, Str(<<"U","N","P","A","T","C","H","E","D">>), Missing, Str(<<"9",".","8">>)),
   HtmlIssue(<<"U","3">>, Str(sLowUnpatched), Str(<<"0",".","0">>), Missing),
   HtmlIssue(<<"U","4">>, Str(sUnpatched), Float(5 * Scale), Str(<<"9",".","8">>)),
   HtmlIssue(<<"P","1">>, Str(<<" ","p","a","t","c","h","e","d">>), None, Str(<<"7",".","5">>)),
   HtmlIssue(<<"O","1">>, Missing, Str(<<"4",".","3">>), Missing)}

\* rows as load_rows makes them
HtmlRows == {MakeRow(Str(sLibfoo), Str(sVersion), x) : x \in HtmlIssues}

\* --min-score: absent, or a float
Thresholds == {None, Float((98 * Scale) \div 10)}

InitHtml ==
  /\ all_rows \in SeqsUpTo(HtmlRows, MaxRows)
  /\ min_score \in Thresholds
  /\ limit \in 0..MaxLimit
  /\ pc = "split"
  /\ unpatched = <<>>
  /\ patched = <<>>
  /\ others = <<>>
  /\ doc = EmptyDoc
  /\ j = [package |-> <<>>]
  /\ pi = 0
  /\ ii = 0
  /\ v3_vec = None
  /\ v2_vec = None
  /\ rows = <<>>

\* build_html on every list of rows, threshold and limit
SpecHtml == InitHtml /\ [][NextHtml]_vars

\* ================================================================= claims
\* the (package, issue) pairs of the input, in input order
RECURSIVE PairsOf(_)
PairsOf(ps) ==
  IF ps = <<>> THEN <<>>
  ELSE [k \in DOMAIN ps[1].issue |-> [name |-> ps[1].name, issue |-> ps[1].issue[k]]]
         \o PairsOf(Tail(ps))

\* how many pairs the loops have taken so far
Taken == IF pi = 0 THEN 0 ELSE Len(PairsOf(SubSeq(j.package, 1, pi - 1))) + ii

\* the issue taken last
LastIssue == j.package[pi].issue[ii]

ScoreAbsentOrPositive(v) == v = None \/ (v.t = "float" /\ v.n > 0)

\* C2: in every Row, scorev3 and scorev2 are each absent or a number strictly
\* greater than zero (parse_score never yields zero or a negative number).
C2_ScoresAbsentOrPositive ==
  \A k \in DOMAIN rows :
    ScoreAbsentOrPositive(rows[k].scorev3) /\ ScoreAbsentOrPositive(rows[k].scorev2)

\* C3: load_rows never aborts on a malformed field of one record.
C3_NeverAborts == pc # "raised"

\* the classification the specification gives for a vector text
ClassOf(cs) ==
  LET s == Upper(Replace(cs, ";", "/"))
      marks == {i \in 1..(Len(s) - 2) : <<s[i], s[i + 1], s[i + 2]>> = <<"A", "V", ":">>}
  IN IF marks = {} THEN <<>>
     ELSE LET first == CHOOSE i \in marks : \A k \in marks : i <= k
          IN IF first + 3 > Len(s) THEN <<>>
             ELSE CASE s[first + 3] = "N" -> sNetwork
                    [] s[first + 3] = "A" -> sAdjacent
                    [] s[first + 3] = "L" -> sLocal
                    [] s[first + 3] = "P" -> sPhysical
                    [] OTHER -> <<>>

\* C4: each Row's attack_vector is the classification of its v3 vector when
\* that is non-empty, otherwise of its v2 vector; it is one of the four
\* categories or empty.
C4_AttackVector ==
  \A k \in DOMAIN rows :
    /\ rows[k].attack_vector =
         Str(ClassOf(IF rows[k].vector_v3.s # <<>> THEN rows[k].vector_v3.s
                     ELSE rows[k].vector_v2.s))
    /\ rows[k].attack_vector.s \in {sNetwork, sAdjacent, sLocal, sPhysical, <<>>}

\* C4 witness: a row with both vectors, classified by its v3 vector; (second
\* disjunct) a row whose lower-case marker is followed by a second marker
C4_Witness ==
  \E k \in DOMAIN rows :
    \/ /\ rows[k].vector_v3 = Str(vecNet3)
       /\ rows[k].vector_v2 = Str(vecLoc2)
       /\ rows[k].attack_vector = Str(sNetwork)
    \/ /\ rows[k].vector_v3 = Str(<<"a","v",":","L","A","V",":","N">>)
       /\ rows[k].attack_vector = Str(sLocal)

HasAlias(issue, keys) == \E i \in DOMAIN keys : NonEmptyStr(Get(issue, keys[i]))

FirstAlias(issue, keys) ==
  Get(issue, keys[CHOOSE i \in DOMAIN keys :
                    /\ NonEmptyStr(Get(issue, keys[i]))
                    /\ \A k \in 1..(i - 1) : ~NonEmptyStr(Get(issue, keys[k]))])

\* C9 as claimed: for every issue taken, the v3 (v2) vector is the value of
\* the first v3 (v2) alias key holding a non-empty string whenever there is
\* one, also when the issue carries a legacy vector field.
C9_AliasFirst ==
  (pi >= 1 /\ ii >= 1) =>
    /\ HasAlias(LastIssue, keys_v3) => v3_vec = FirstAlias(LastIssue, keys_v3)
    /\ HasAlias(LastIssue, keys_v2) => v2_vec = FirstAlias(LastIssue, keys_v2)

\* the legacy value: the "vector" entry when it is truthy, else the "cvss_vector" entry
LegacyOf(issue) ==
  IF Truthy(Get(issue, "vector")) THEN Get(issue, "vector") ELSE Get(issue, "cvss_vector")

\* C9 amended: the legacy value, when it is a non-empty string, is the v3
\* vector if line 47 takes it for v3 and the v2 vector otherwise, before any
\* alias; a version the legacy value does not supply is the value of the
\* first alias key of that version holding a non-empty string, or None.
C9_LegacyThenAlias ==
  (pi >= 1 /\ ii >= 1) =>
    LET raw == LegacyOf(LastIssue)
        legacy == raw.t = "str" /\ raw.s # <<>>
    IN /\ v3_vec = IF legacy /\ LooksV3(raw.s) THEN raw
                   ELSE IF HasAlias(LastIssue, keys_v3) THEN FirstAlias(LastIssue, keys_v3)
                   ELSE None
       /\ v2_vec = IF legacy /\ ~LooksV3(raw.s) THEN raw
                   ELSE IF HasAlias(LastIssue, keys_v2) THEN FirstAlias(LastIssue, keys_v2)
                   ELSE None

\* C9 witness: a legacy v3 vector beside a different v3 alias, the legacy one
\* returned; (second disjunct) two v2 aliases, the earlier one returned
C9_Witness ==
  /\ pi >= 1 /\ ii >= 1
  /\ \/ /\ NonEmptyStr(LegacyOf(LastIssue))
        /\ HasAlias(LastIssue, keys_v3)
        /\ FirstAlias(LastIssue, keys_v3) # LegacyOf(LastIssue)
        /\ v3_vec = LegacyOf(LastIssue)
     \/ /\ Cardinality({i \in DOMAIN keys_v2 : NonEmptyStr(Get(LastIssue, keys_v2[i]))}) = 2
        /\ \E i \in DOMAIN keys_v2 : v2_vec = Get(LastIssue, keys_v2[i])
        /\ \E i \in DOMAIN keys_v2 :
             NonEmptyStr(Get(LastIssue, keys_v2[i])) /\ Get(LastIssue, keys_v2[i]) # v2_vec

\* the severity the specification orders by: v3, else v2, else -1
EffectiveScore(r) ==
  IF r.scorev3.t = "float" THEN r.scorev3.n
  ELSE IF r.scorev2.t = "float" THEN r.scorev2.n ELSE -Scale

Range(q) == {q[i] : i \in DOMAIN q}

Descending(part) ==
  \A i \in 1..(Len(part) - 1) : EffectiveScore(part[i]) >= EffectiveScore(part[i + 1])

\* rows of equal severity stand in the partition in the order they have in all_rows
StableOrder(part) ==
  \A k \in {EffectiveScore(r) : r \in Range(part)} :
    LET InPart(r) == EffectiveScore(r) = k
        InAll(r) == r \in Range(part) /\ EffectiveScore(r) = k
    IN SelectSeq(part, InPart) = SelectSeq(all_rows, InAll)

StatusIs(r, low) == Lower(r.status.s) = low

\* the score a threshold is compared with: v3, else v2, else none
Determinable(r) == IF r.scorev3 # None THEN r.scorev3 ELSE r.scorev2

Count(q, r) == Cardinality({i \in DOMAIN q : q[i] = r})
SameRows(q1, q2) == \A r \in Range(q1) \cup Range(q2) : Count(q1, r) = Count(q2, r)

ExpectedUnpatched ==
  LET Keep(r) == /\ StatusIs(r, sLowUnpatched)
                 /\ min_score # None =>
                      Determinable(r) # None /\ Determinable(r).n >= min_score.n
  IN SelectSeq(all_rows, Keep)

ExpectedPatched ==
  LET Keep(r) == StatusIs(r, sLowPatched)
  IN SelectSeq(all_rows, Keep)

ExpectedOthers ==
  LET Keep(r) == ~StatusIs(r, sLowUnpatched) /\ ~StatusIs(r, sLowPatched)
  IN SelectSeq(all_rows, Keep)

\* C6: after the filter step the unpatched partition holds exactly the rows
\* of status "unpatched" (any case) whose determinable score exists and is
\* >= the threshold, or all of them when no threshold is given; the patched
\* and other partitions hold the rows of their status whatever the
\* threshold; with no threshold no row is left out.
C6_Threshold ==
  /\ pc = "sort" =>
       /\ unpatched = ExpectedUnpatched
       /\ patched = ExpectedPatched
       /\ others = ExpectedOthers
  /\ pc \in {"header", "body", "done"} =>
       /\ SameRows(unpatched, ExpectedUnpatched)
       /\ SameRows(patched, ExpectedPatched)
       /\ SameRows(others, ExpectedOthers)
  /\ (pc \in {"sort", "header", "body", "done"} /\ min_score = None) =>
       Len(unpatched) + Len(patched) + Len(others) = Len(all_rows)

\* C6 witness: of three unpatched rows, the one whose score equals the
\* threshold is kept, a lower one and one with no score are dropped
C6_Witness ==
  /\ pc = "done"
  /\ min_score # None
  /\ Len(all_rows) = 3
  /\ \A i \in DOMAIN all_rows : StatusIs(all_rows[i], sLowUnpatched)
  /\ \E i \in DOMAIN all_rows : Determinable(all_rows[i]) = None
  /\ \E i \in DOMAIN all_rows :
       Determinable(all_rows[i]) # None /\ Determinable(all_rows[i]).n < min_score.n
  /\ Len(unpatched) = 1
  /\ Determinable(unpatched[1]).n = min_score.n

TablesTitled(title) == {i \in DOMAIN doc.tables : doc.tables[i].title = title}

\* the table of a partition shows its first min(limit, n) rows, each at least
\* as severe as every row left out
ShowsTop(title, part) ==
  \A i \in TablesTitled(title) :
    LET shown == doc.tables[i].body
    IN /\ Len(shown) = Min(limit, Len(part))
       /\ \A k \in DOMAIN shown : shown[k].row = part[k]
       /\ \A k \in DOMAIN shown : \A d \in (Len(shown) + 1)..Len(part) :
            EffectiveScore(shown[k].row) >= EffectiveScore(part[d])

C8_TableIffNonEmpty ==
  pc = "done" =>
    /\ TablesTitled("Unpatched (ordenadas por severidad)") # {} <=> unpatched # <<>>
    /\ TablesTitled("Patched") # {} <=> patched # <<>>
    /\ TablesTitled("Otros estados") # {} <=> others # <<>>

\* C8 amended: the Unpatched and the Patched table are always emitted, once
\* each, also for an empty partition; the table of the other partition is
\* emitted, once, if and only if that partition has at least one row.
C8_TablesEmitted ==
  pc = "done" =>
    /\ Cardinality(TablesTitled("Unpatched (ordenadas por severidad)")) = 1
    /\ Cardinality(TablesTitled("Patched")) = 1
    /\ Cardinality(TablesTitled("Otros estados")) = IF others # <<>> THEN 1 ELSE 0
    /\ Len(doc.tables) = IF others # <<>> THEN 3 ELSE 2

\* C8 witness: only the other partition has rows, and three tables are emitted
C8_Witness ==
  /\ pc = "done"
  /\ unpatched = <<>>
  /\ patched = <<>>
  /\ others # <<>>
  /\ Len(doc.tables) = 3
  /\ doc.tables[1].body = <<>>

\* C10: the Total CVEs of the header is the sum of its Unpatched, Patched
\* and Other counts, with or without a threshold.
C10_TotalIsSum ==
  pc = "done" => doc.total = doc.unpatched + doc.patched + doc.others

====
